---------------------------- MODULE Spec2Model ----------------------------
(***************************************************************************)
(* Model of the STM32 USART bootloader programmer (src/src/lib.rs).        *)
(*                                                                         *)
(* The Programmer is a sequential program over three collaborators: the    *)
(* serial port (write, flush, non-blocking read, set_rts, set_dtr), the    *)
(* delay source and the caller.  One step of the model is one call to a    *)
(* collaborator, or one piece of local computation between two calls.      *)
(* The code still to run of the current operation is kept in cont, a       *)
(* sequence of instructions built by the operators named after the         *)
(* functions of lib.rs.                                                    *)
(***************************************************************************)
EXTENDS Integers, Sequences, FiniteSets, TLC

\* ------------------------------------------------------------- constants
UART_DISC == 127
UART_ACK == 121
UART_NACK == 31

CmdGet == 0
CmdGetId == 2
CmdReadMemory == 17
CmdWriteMemory == 49
CmdErase == 67

\* the twelve opcodes of the Command enum, in the order of a Get reply
CommandList == <<0, 1, 2, 17, 33, 49, 67, 99, 115, 130, 146, 68>>
Commands == {CommandList[i] : i \in 1..Len(CommandList)}

\* protocol.rs MAX_CHUNK: the chunk size read and write do not use
MAX_CHUNK == 256
\* data.chunks(128) / data.chunks_mut(128)
ChunkSize == 128
\* let mut data = [0u8; 12] in info
InfoBufLen == 12
\* delay_ms(10u32) in reset; delay_ms(100) in init
ResetHoldMs == 10
InitWaitMs == 100
\* default_value of init_delay_ms
InitDelayMs == 100

\* ---------------------------------------------------------------- bounds
\* response_timeout_ms ranges over 0..MaxTimeout, poll_delay_ms over 0..MaxPoll
MaxTimeout == 1
MaxPoll == 1
\* buffer lengths of read and write in the general specification
MaxLen == 2
\* page_offset and page_count of erase range over the values below MaxPage
\* and the values at the top of u8
MaxPage == 5
\* the count of read attempts of one read_char saturates here
PollCap == MaxTimeout + 3
\* the simulated bootloader: bytes of memory, bytes of a page, and the
\* number of calls made on it in one behaviour
SimMemSize == 136
SimPageSize == 64
SimCalls == 2

\* ------------------------------------------------------ integer helpers
Min(a, b) == IF a < b THEN a ELSE b

Pow2(k) == 2 ^ k

Bit(a, i) == (a \div Pow2(i)) % 2

\* a ^ b on w-bit values
XorW(a, b, w) ==
    LET RECURSIVE go(_)
        go(i) == IF i = w THEN 0
                 ELSE Pow2(i) * ((Bit(a, i) + Bit(b, i)) % 2) + go(i + 1)
    IN go(0)

\* a ^ b on u8
Xor(a, b) == XorW(a, b, 8)

\* a | b on u16
Or16(a, b) ==
    LET RECURSIVE go(_)
        go(i) == IF i = 16 THEN 0
                 ELSE Pow2(i) * (IF Bit(a, i) + Bit(b, i) > 0 THEN 1 ELSE 0)
                      + go(i + 1)
    IN go(0)

\* !c on u8
Not8(c) == 255 - c

\* XOR of the bytes s[lo..hi] (XOR is associative: the fold is split in
\* halves to keep the evaluation shallow)
RECURSIVE XorRange(_, _, _)
XorRange(s, lo, hi) ==
    IF lo > hi THEN 0
    ELSE IF lo = hi THEN s[lo]
    ELSE LET mid == (lo + hi) \div 2
         IN Xor(XorRange(s, lo, mid), XorRange(s, mid + 1, hi))

\* XOR of all bytes of a sequence, starting from acc
XorAll(acc, s) == Xor(acc, XorRange(s, 1, Len(s)))

\* A u32 is kept as <<high 16 bits, low 16 bits>>.
U32(hi, lo) == <<hi, lo>>

\* addr + k as u32 arithmetic: the wrapped sum, and whether it overflowed
U32Add(a, k) ==
    LET lo == a[2] + k
        hi == a[1] + (lo \div 65536)
    IN [val |-> <<hi % 65536, lo % 65536>>, overflow |-> hi >= 65536]

\* the address bytes, least significant first
AddrBytes_le(a) == <<a[2] % 256, a[2] \div 256, a[1] % 256, a[1] \div 256>>

\* [(addr >> 24) as u8, (addr >> 16) as u8, (addr >> 8) as u8, addr as u8]
AddrBytes(a) == <<a[1] \div 256, a[1] % 256, a[2] \div 256, a[2] % 256>>

\* ---------------------------------------------------------------- results
None == [tag |-> "None", kind |-> "", v |-> 0]
Ok(v) == [tag |-> "Ok", kind |-> "", v |-> v]
Err(kind, v) == [tag |-> "Err", kind |-> kind, v |-> v]
Panic(why) == [tag |-> "Panic", kind |-> why, v |-> 0]

\* impl From<SerialError> for Error
Serial(e) == Err("Serial", e)

\* the transport's error values
SerialErrors == {1, 2}


\* ------------------------------------------------------------ instructions
\* An instruction is <<kind, x, y>>.  How the result of a call is used:
Try == 0        \* `?`: an Err returns from the operation
Unwrap == 1     \* `.unwrap()`: an Err panics
Discard == 2    \* `let _ =`: the result is dropped

W(b) == <<"w", b, Try>>                 \* block!(self.port.write(b))?
Flush == <<"flush", 0, Try>>            \* block!(self.port.flush())?
Ack == <<"ack", 0, Try>>                \* self.await_ack()?
Rd(dest, i) == <<"rd", dest, i>>        \* self.read_char()? stored to dest
Rts(level) == <<"rts", level, Try>>     \* self.port.set_rts(level)?
Dtr(level) == <<"dtr", level, Try>>     \* self.port.set_dtr(level)?
Delay(ms) == <<"delay", ms, 0>>         \* self.delay.delay_ms(ms)
Local(name, x) == <<name, x, 0>>        \* local computation, see the actions

\* where read_char()? is stored
ToBuf == 0      \* data[i] = ...
ToN == 1        \* let n = ... as usize + 1
ToId == 2       \* v |= (c as u16) << (i * 8)

IsRead(ins) == ins[1] \in {"ack", "rd"}

\* --------------------------------------------------- framing primitives
\* write_cmd with the two bytes in the other order
write_cmd_swapped(command) ==
    LET c1 == command
        c2 == Not8(c1)
    IN <<W(c2), W(c1), Flush>>

write_cmd(command) ==
    LET c1 == command
        c2 == Not8(c1)
    IN <<W(c1), W(c2), Flush>>

write_bytes(data) ==
    [i \in 1..Len(data) |-> W(data[i])] \o <<Flush>>

write_bytes_csum(data) ==
    LET csum == XorAll(0, data)
    IN [i \in 1..Len(data) |-> W(data[i])] \o <<W(csum), Flush>>

\* await_ack that takes every byte but ACK for a NACK
await_ack_loose(r) ==
    IF r.tag # "Ok" THEN r
    ELSE IF r.v = UART_ACK THEN Ok(0)
    ELSE Err("Nack", 0)

\* the match of await_ack on the result of read_char
await_ack(r) ==
    IF r.tag # "Ok" THEN r
    ELSE IF r.v = UART_ACK THEN Ok(0)
    ELSE IF r.v = UART_NACK THEN Err("Nack", 0)
    ELSE Err("InvalidResponse", 0)

\* ------------------------------------------------------------------ state
VARIABLES
    options,          \* the configuration record of the session
    overflow_checks,  \* the build: integer overflow panics (TRUE) or wraps
    session,          \* a Programmer has been handed to the caller
    op,               \* the operation in progress, or the last one
    cont,             \* the instructions of op still to run
    buf,              \* the buffer of op: data of read/write/info, pages of erase
    n,                \* the local n of info and chip_id
    v,                \* the local v of chip_id
    t,                \* the local t of read_char
    polls,            \* self.port.read() calls made by the current read_char
    rc,               \* where read_char is in its loop: "read" or "delay"
    wire,             \* what op has done on the port and the delay, in order
    blocks,           \* the calls of read_mem_block/write_mem_block of op
    fault,            \* the transport error raised during op, 0 if none
    disc,             \* the result of the first await_ack of init (discovery)
    last,             \* the result of the latest await_ack or read_char
    result,           \* what op returned to the caller
    dev,              \* the other end of the port: the line and the bootloader
    prev              \* the call before op, kept where the bootloader is simulated

vars == <<options, overflow_checks, session, op, cont, buf, n, v, t, polls, rc,
          wire, blocks, fault, disc, last, result, dev, prev>>

\* ------------------------------------------------------------ operations
\* reset with a wrong order: RTS is released before DTR is raised
reset_late_dtr(bootloader) ==
    <<Rts(1), Delay(ResetHoldMs), Rts(0)>>
    \o (IF bootloader THEN <<Dtr(1)>> ELSE <<>>)
    \o <<Delay(options.init_delay_ms)>>
    \o (IF bootloader THEN <<Dtr(0)>> ELSE <<>>)

reset(bootloader) ==
    <<Rts(1), Delay(ResetHoldMs)>>
    \o (IF bootloader THEN <<Dtr(1)>> ELSE <<>>)
    \o <<Rts(0), Delay(options.init_delay_ms)>>
    \o (IF bootloader THEN <<Dtr(0)>> ELSE <<>>)

info == write_cmd(CmdGet) \o <<Ack, Rd(ToN, 0), Local("info_data", 0)>>

\* init made strict: the discovery acknowledgement is taken with `?`
init_strict ==
    reset(TRUE)
    \o <<<<"w", UART_DISC, Unwrap>>, <<"flush", 0, Unwrap>>, Ack,
         Delay(InitWaitMs)>>
    \o info
    \o <<Delay(InitWaitMs)>>

\* init in a hurry: Get follows the discovery acknowledgement at once
init_no_wait ==
    reset(TRUE)
    \o <<<<"w", UART_DISC, Unwrap>>, <<"flush", 0, Unwrap>>,
         <<"ack", 0, Discard>>>>
    \o info
    \o <<Delay(InitWaitMs)>>

init ==
    reset(TRUE)
    \o <<<<"w", UART_DISC, Unwrap>>, <<"flush", 0, Unwrap>>,
         <<"ack", 0, Discard>>, Delay(InitWaitMs)>>
    \o info
    \o <<Delay(InitWaitMs)>>

new == init

erase_pages == write_cmd(CmdErase) \o <<Ack, Local("erase_len", 0)>>

erase == <<Local("erase_range", 0)>>

erase_all ==
    write_cmd(CmdErase) \o <<Ack>> \o write_bytes(<<255, 0>>) \o <<Ack>>

\* read_mem_block with a wrong order: the data is read before the length is ACKed
read_mem_block_early(addr, index, len) ==
    LET a == AddrBytes(addr)
        addr_csum == Xor(Xor(Xor(a[1], a[2]), a[3]), a[4])
        l == len - 1
    IN write_cmd(CmdReadMemory) \o <<Ack>>
       \o [i \in 1..4 |-> W(a[i])] \o <<W(addr_csum), Flush, Ack>>
       \o write_bytes(<<l, Not8(l)>>)
       \o [i \in 1..len |-> Rd(ToBuf, index + i)] \o <<Ack>>

\* index is the offset of the chunk in the caller's buffer, len its length
read_mem_block(addr, index, len) ==
    LET a == AddrBytes(addr)
        addr_csum == Xor(Xor(Xor(a[1], a[2]), a[3]), a[4])
        l == len - 1
    IN write_cmd(CmdReadMemory) \o <<Ack>>
       \o [i \in 1..4 |-> W(a[i])] \o <<W(addr_csum), Flush, Ack>>
       \o write_bytes(<<l, Not8(l)>>) \o <<Ack>>
       \o [i \in 1..len |-> Rd(ToBuf, index + i)]

\* write_mem_block with a wrong length byte: the length byte is data.len(), not data.len()-1
write_mem_block_len(addr, data) ==
    LET a == AddrBytes(addr)
        addr_csum == Xor(Xor(Xor(a[1], a[2]), a[3]), a[4])
        len == Len(data)
        data_csum == XorAll(len, data)
    IN write_cmd(CmdWriteMemory) \o <<Ack>>
       \o [i \in 1..4 |-> W(a[i])] \o <<W(addr_csum), Flush, Ack>>
       \o <<W(len)>> \o [i \in 1..Len(data) |-> W(data[i])] \o <<W(data_csum)>>
       \o <<Ack>>

write_mem_block(addr, data) ==
    LET a == AddrBytes(addr)
        addr_csum == Xor(Xor(Xor(a[1], a[2]), a[3]), a[4])
        len == Len(data) - 1
        data_csum == XorAll(len, data)
    IN write_cmd(CmdWriteMemory) \o <<Ack>>
       \o [i \in 1..4 |-> W(a[i])] \o <<W(addr_csum), Flush, Ack>>
       \o <<W(len)>> \o [i \in 1..Len(data) |-> W(data[i])] \o <<W(data_csum)>>
       \o <<Ack>>

read == <<Local("read_chunk", 0)>>

write == <<Local("write_chunk", 0)>>

chip_id == write_cmd(CmdGetId) \o <<Ack, Rd(ToN, 0), Local("chip_id_data", 0)>>

\* ---------------------------------------------------------------- inputs
\* an operation called on the session: name, address, and two numbers
Op(name, a, x, y) == [name |-> name, a |-> a, x |-> x, y |-> y]

NoAddr == U32(0, 0)

\* 0x08000000 (flash) and 0xFFFFFF80 (the last 128 bytes of the address space)
Addrs == {U32(2048, 0), U32(65535, 65408)}

PageVals == (0..MaxPage) \cup {255}

\* the lengths of the chunking specification
ChunkLens == {0, 1, 128, 129, 256, 257}

MemOps(lens) == {Op(nm, a, l, 0) : nm \in {"read", "write"}, a \in Addrs, l \in lens}

Ops ==
    {Op(nm, NoAddr, 0, 0) : nm \in {"new", "info", "chip_id", "erase_all"}}
    \cup {Op("reset", NoAddr, b, 0) : b \in {0, 1}}
    \cup {Op("write_cmd", NoAddr, c, 0) : c \in Commands}
    \cup {Op("erase", NoAddr, po, pc) : po \in PageVals, pc \in PageVals}
    \cup MemOps(0..MaxLen)

ChunkOps == Ops \cup MemOps(ChunkLens)

OptionsSet ==
    [no_reset : BOOLEAN, response_timeout_ms : 0..MaxTimeout,
     poll_delay_ms : 0..MaxPoll, init_delay_ms : {InitDelayMs}]

\* the caller's data of write(addr, data)
TxData(len) == [i \in 1..len |-> (7 * i + 3) % 256]

\* vec![0u8; length], [0u8; 12]
Zeros(len) == [i \in 1..len |-> 0]

\* the payload byte the device sends at position i of a reply
DevByte(i) == (i % 255) + 1

\* the length bytes the device may send in a Get or GetId reply
LenBytes == {0, 1, 2, 11, 12}

\* what self.port.read() may return as Ok(byte) for the instruction waiting
RxChoices(ins) ==
    IF dev.mode = "sim"
    THEN IF dev.out = <<>> THEN {} ELSE {Head(dev.out)}
    ELSE IF ins[1] = "ack"
    THEN IF dev.mode = "bytes" THEN 0..255 ELSE {UART_ACK, UART_NACK, 0}
    ELSE IF ins[2] = ToN THEN LenBytes
    ELSE {DevByte(ins[3])}

Body(o) ==
    CASE o.name = "new" -> new
      [] o.name = "info" -> info
      [] o.name = "chip_id" -> chip_id
      [] o.name = "erase_all" -> erase_all
      [] o.name = "erase" -> erase
      [] o.name = "reset" -> reset(o.x = 1)
      [] o.name = "write_cmd" -> write_cmd(o.x)
      [] o.name = "read" -> read
      [] o.name = "write" -> write

InitBuf(o) ==
    CASE o.name \in {"new", "info"} -> Zeros(InfoBufLen)
      [] o.name = "read" -> Zeros(o.x)
      [] o.name = "write" -> TxData(o.x)
      [] OTHER -> <<>>

\* Ok(data[0]) of info, Ok(v) of chip_id, Ok(()) otherwise
RetVal(b, vv) ==
    CASE op.name = "info" -> b[1]
      [] op.name = "chip_id" -> vv
      [] OTHER -> 0

\* ---------------------------------------------- the line and the bootloader
\* The other end of the port.  In the general specifications the bootloader
\* is free: read() may return any of RxChoices.  Where it is simulated, it
\* is the faithful bootloader of the protocol the operations speak: it
\* checks preambles, address checksums and payload checksums, keeps what is
\* written and returns what it keeps.

\* the version byte of a Get reply
BootVersion == 49

\* N, the version, N command bytes, ACK
GetReply(nc) ==
    <<nc, BootVersion>> \o SubSeq(CommandList, 1, nc) \o <<UART_ACK>>

\* N = 1, the two bytes of the product id, ACK
GetIdReply == <<1, 4, 16, UART_ACK>>

\* the memory region starts at 0x08000000
InRegion(a) == a[1] = 8 /\ a[2] = 0 /\ a[3] * 256 + a[4] < SimMemSize

MemAt(mem, i) == IF i \in 1..SimMemSize THEN mem[i] ELSE 255

Erased == [i \in 1..SimMemSize |-> 255]

\* the bootloader receives byte b
DevIn(d, b) ==
    LET r == Append(d.req, b)
        more == [d EXCEPT !.req = r]
        nack == [d EXCEPT !.req = <<>>, !.ph = "cmd",
                          !.out = Append(@, UART_NACK)]
        ack(ph, reply) == [d EXCEPT !.req = <<>>, !.ph = ph,
                                    !.out = @ \o <<UART_ACK>> \o reply]
    IN CASE d.ph = "cmd" ->
              IF Len(r) < 2 THEN more
              ELSE IF r[2] # 255 - r[1] THEN nack
              ELSE CASE r[1] = CmdGet -> ack("cmd", GetReply(d.ncmds))
                     [] r[1] = CmdGetId -> ack("cmd", GetIdReply)
                     [] r[1] = CmdReadMemory -> ack("raddr", <<>>)
                     [] r[1] = CmdWriteMemory -> ack("waddr", <<>>)
                     [] r[1] = CmdErase -> ack("erase", <<>>)
                     [] OTHER -> nack
         [] d.ph \in {"raddr", "waddr"} ->
              IF Len(r) < 5 THEN more
              ELSE IF r[5] = XorRange(r, 1, 4) /\ InRegion(r)
              THEN [ack(IF d.ph = "raddr" THEN "rlen" ELSE "wdata", <<>>)
                        EXCEPT !.addr = r[3] * 256 + r[4]]
              ELSE nack
         [] d.ph = "rlen" ->
              IF Len(r) < 2 THEN more
              ELSE IF r[2] = 255 - r[1]
              THEN ack("cmd", [i \in 1..(r[1] + 1) |-> MemAt(d.mem, d.addr + i)])
              ELSE nack
         [] d.ph = "wdata" ->
              IF Len(r) < r[1] + 3 THEN more
              ELSE IF r[Len(r)] = XorRange(r, 1, Len(r) - 1)
              THEN [ack("cmd", <<>>) EXCEPT !.mem =
                       [i \in 1..SimMemSize |->
                           IF i > d.addr /\ i <= d.addr + r[1] + 1
                           THEN r[1 + i - d.addr] ELSE d.mem[i]]]
              ELSE nack
         [] d.ph = "erase" ->
              IF r[1] = 255
              THEN IF Len(r) < 2 THEN more
                   ELSE IF r[2] = 0
                   THEN [ack("cmd", <<>>) EXCEPT !.mem = Erased]
                   ELSE nack
              ELSE IF Len(r) < r[1] + 3 THEN more
                   ELSE IF r[Len(r)] = XorRange(r, 2, Len(r) - 1)
                   THEN [ack("cmd", <<>>) EXCEPT !.mem =
                            [i \in 1..SimMemSize |->
                                IF \E k \in 2..(Len(r) - 1) :
                                       (i - 1) \div SimPageSize = r[k]
                                THEN 255 ELSE d.mem[i]]]
                   ELSE nack

\* the bootloader receives the bytes s[lo..hi], in order
RECURSIVE DevFeed(_, _, _, _)
DevFeed(d, s, lo, hi) ==
    IF lo > hi THEN d
    ELSE IF lo = hi THEN DevIn(d, s[lo])
    ELSE LET mid == (lo + hi) \div 2
         IN DevFeed(DevFeed(d, s, lo, mid), s, mid + 1, hi)

\* write(b): the byte goes to the bootloader at once, or is queued until
\* the next flush, as the transport chooses to work
LineWrite(d, b) ==
    IF d.mode # "sim" THEN d
    ELSE IF d.buffered THEN [d EXCEPT !.queued = Append(@, b)]
    ELSE DevIn(d, b)

\* flush(): the queued bytes go to the bootloader
LineFlush(d) ==
    IF d.mode # "sim" \/ ~d.buffered THEN d
    ELSE [DevFeed(d, d.queued, 1, Len(d.queued)) EXCEPT !.queued = <<>>]

\* read() returned a byte: it leaves the line
LineRead(d) ==
    IF d.mode # "sim" THEN d ELSE [d EXCEPT !.out = Tail(@)]

\* a free bootloader; one that answers every byte value where an
\* acknowledgement is awaited; a simulated one
FreeDev ==
    [mode |-> "free", buffered |-> FALSE, ncmds |-> 0, queued |-> <<>>,
     ph |-> "cmd", req |-> <<>>, addr |-> 0, out |-> <<>>, mem |-> <<>>,
     calls |-> 0]

BytesDev == [FreeDev EXCEPT !.mode = "bytes"]

SimDev(buffered, ncmds) ==
    [FreeDev EXCEPT !.mode = "sim", !.buffered = buffered, !.ncmds = ncmds,
                    !.mem = Erased]

NoPrev == [op |-> Op("idle", NoAddr, 0, 0), result |-> None, buf |-> <<>>]

\* --------------------------------------------------------------- control
Idle == Op("idle", NoAddr, 0, 0)

\* the operation returns r to the caller
Return(r) ==
    /\ cont' = <<>>
    /\ result' = r
    /\ session' = (session \/ (op.name = "new" /\ r.tag = "Ok"))

\* the operation goes on with the instructions c; falling off the end of
\* the function body is the final Ok(..)
Continue(c, b, vv) ==
    IF c = <<>> THEN Return(Ok(RetVal(b, vv)))
    ELSE cont' = c /\ result' = None /\ UNCHANGED session

\* Question made lenient: a Nack does not return, the operation goes on
Question_PastNack(m, r, c, b, vv) ==
    IF r.tag = "Ok" \/ m = Discard \/ r.kind = "Nack" THEN Continue(c, b, vv)
    ELSE IF m = Unwrap THEN Return(Panic("unwrap"))
    ELSE Return(r)

\* how the result r of a call is used under mode m, before going on with c
Question(m, r, c, b, vv) ==
    IF r.tag = "Ok" \/ m = Discard THEN Continue(c, b, vv)
    ELSE IF m = Unwrap THEN Return(Panic("unwrap"))
    ELSE Return(r)

Running == cont # <<>>

Ins == Head(cont)

\* the caller calls operation o
Call(o) ==
    /\ ~Running
    /\ result.tag # "Panic"
    /\ o.name = "new" \/ session
    /\ op' = o
    /\ cont' = Body(o)
    /\ buf' = InitBuf(o)
    /\ n' = 0 /\ v' = 0 /\ t' = 0 /\ polls' = 0 /\ rc' = "read"
    /\ wire' = <<>> /\ blocks' = <<>>
    /\ fault' = 0 /\ disc' = None /\ last' = None /\ result' = None
    /\ dev.mode = "sim" => dev.calls < SimCalls
    /\ dev' = IF dev.mode = "sim" THEN [dev EXCEPT !.calls = @ + 1] ELSE dev
    /\ prev' = IF dev.mode = "sim"
               THEN [op |-> op, result |-> result, buf |-> buf]
               ELSE prev
    /\ UNCHANGED <<options, overflow_checks, session>>

\* ---------------------------------------------------- transport and delay
\* block!(self.port.write(b)) returns Ok
PortWrite ==
    /\ Running /\ Ins[1] = "w"
    /\ wire' = Append(wire, <<"w", Ins[2]>>)
    /\ dev' = LineWrite(dev, Ins[2])
    /\ Continue(Tail(cont), buf, v)
    /\ UNCHANGED <<prev, options, overflow_checks, op, buf, n, v, t, polls, rc,
                   blocks, fault, disc, last>>

\* block!(self.port.flush()) returns Ok
PortFlush ==
    /\ Running /\ Ins[1] = "flush"
    /\ wire' = Append(wire, <<"flush", 0>>)
    /\ dev' = LineFlush(dev)
    /\ Continue(Tail(cont), buf, v)
    /\ UNCHANGED <<prev, options, overflow_checks, op, buf, n, v, t, polls, rc,
                   blocks, fault, disc, last>>

\* self.port.set_rts(level) or self.port.set_dtr(level) returns Ok
PortSetLine ==
    /\ Running /\ Ins[1] \in {"rts", "dtr"}
    /\ wire' = Append(wire, <<Ins[1], Ins[2]>>)
    /\ Continue(Tail(cont), buf, v)
    /\ UNCHANGED <<dev, prev, options, overflow_checks, op, buf, n, v, t, polls, rc,
                   blocks, fault, disc, last>>

\* write, flush, set_rts or set_dtr returns Err(e)
PortErr(e) ==
    /\ Running /\ Ins[1] \in {"w", "flush", "rts", "dtr"}
    /\ fault' = e
    /\ Question(Ins[3], Serial(e), Tail(cont), buf, v)
    /\ UNCHANGED <<dev, prev, options, overflow_checks, op, buf, n, v, t, polls, rc,
                   wire, blocks, disc, last>>

\* self.delay.delay_ms(ms) outside read_char
DelayMs ==
    /\ Running /\ Ins[1] = "delay"
    /\ wire' = Append(wire, <<"delay", Ins[2]>>)
    /\ Continue(Tail(cont), buf, v)
    /\ UNCHANGED <<dev, prev, options, overflow_checks, op, buf, n, v, t, polls, rc,
                   blocks, fault, disc, last>>

\* ------------------------------------------------------------- read_char
\* read_char returned r to the instruction Ins (await_ack or a plain read)
Deliver(r) ==
    LET c == Tail(cont) IN
    /\ t' = 0 /\ polls' = 0 /\ rc' = "read"
    /\ IF Ins[1] = "ack"
       THEN /\ last' = await_ack(r)
            /\ disc' = IF op.name = "new" /\ disc = None THEN await_ack(r) ELSE disc
            /\ Question(Ins[3], await_ack(r), c, buf, v)
            /\ UNCHANGED <<buf, n, v>>
       ELSE /\ last' = r
            /\ UNCHANGED disc
            /\ IF r.tag # "Ok"
               THEN Question(Try, r, c, buf, v) /\ UNCHANGED <<buf, n, v>>
               ELSE CASE Ins[2] = ToBuf ->
                         /\ buf' = [buf EXCEPT ![Ins[3]] = r.v]
                         /\ Continue(c, buf', v)
                         /\ UNCHANGED <<n, v>>
                      [] Ins[2] = ToN ->
                         /\ n' = r.v + 1
                         /\ Continue(c, buf, v)
                         /\ UNCHANGED <<buf, v>>
                      [] Ins[2] = ToId ->
                         \* v |= (c as u16) << (i * 8)
                         IF Ins[3] * 8 >= 16 /\ overflow_checks
                         THEN Return(Panic("overflow")) /\ UNCHANGED <<buf, n, v>>
                         ELSE /\ v' = Or16(v, (r.v * Pow2((Ins[3] * 8) % 16)) % 65536)
                              /\ Continue(c, buf, v')
                              /\ UNCHANGED <<buf, n>>

\* self.port.read() returns Ok(b)
PortRead(b) ==
    /\ Running /\ IsRead(Ins) /\ rc = "read"
    /\ b \in RxChoices(Ins)
    /\ wire' = Append(wire, <<"rx", b>>)
    /\ dev' = LineRead(dev)
    /\ Deliver(Ok(b))
    /\ UNCHANGED <<prev, options, overflow_checks, op, blocks, fault>>

\* self.port.read() returns Err(nb::Error::Other(e))
PortReadErr(e) ==
    /\ Running /\ IsRead(Ins) /\ rc = "read"
    /\ fault' = e
    /\ Deliver(Serial(e))
    /\ UNCHANGED <<dev, prev, options, overflow_checks, op, wire, blocks>>

\* self.port.read() returns Err(nb::Error::WouldBlock)
PortReadWouldBlock ==
    /\ Running /\ IsRead(Ins) /\ rc = "read"
    /\ dev.mode = "sim" => dev.out = <<>>
    /\ UNCHANGED dev
    /\ rc' = "delay"
    /\ polls' = Min(polls + 1, PollCap)
    /\ UNCHANGED <<prev, options, overflow_checks, session, op, cont, buf, n, v, t,
                   wire, blocks, fault, disc, last, result>>

\* read_char with an inclusive bound: if t >= response_timeout_ms
PollDelay_inclusive ==
    /\ Running /\ IsRead(Ins) /\ rc = "delay"
    /\ LET t1 == t + options.poll_delay_ms IN
         IF t1 >= options.response_timeout_ms
         THEN Deliver(Err("Timeout", 0))
         ELSE /\ t' = t1 /\ rc' = "read"
              /\ UNCHANGED <<session, cont, buf, n, v, polls, disc, last, result>>
    /\ UNCHANGED <<dev, prev, options, overflow_checks, op, wire, blocks, fault>>

\* delay_ms(poll_delay_ms); t += poll_delay_ms; if t > response_timeout_ms
PollDelay ==
    /\ Running /\ IsRead(Ins) /\ rc = "delay"
    /\ LET t1 == t + options.poll_delay_ms IN
         IF t1 > options.response_timeout_ms
         THEN Deliver(Err("Timeout", 0))
         ELSE /\ t' = t1 /\ rc' = "read"
              /\ UNCHANGED <<session, cont, buf, n, v, polls, disc, last, result>>
    /\ UNCHANGED <<dev, prev, options, overflow_checks, op, wire, blocks, fault>>

\* ------------------------------------------------------ local computation
\* info with the capacity test off by one: a reply of 12 bytes is refused
InfoData_short ==
    /\ Running /\ Ins[1] = "info_data"
    /\ IF InfoBufLen <= n
       THEN Return(Err("BufferLength", 0))
       ELSE Continue([i \in 1..n |-> Rd(ToBuf, i)] \o <<Ack>> \o Tail(cont), buf, v)
    /\ UNCHANGED <<dev, prev, options, overflow_checks, op, buf, n, v, t, polls, rc,
                   wire, blocks, fault, disc, last>>

\* info: if data.len() < n { return Err(BufferLength) }; for i in 0..n {..}
InfoData ==
    /\ Running /\ Ins[1] = "info_data"
    /\ IF InfoBufLen < n
       THEN Return(Err("BufferLength", 0))
       ELSE Continue([i \in 1..n |-> Rd(ToBuf, i)] \o <<Ack>> \o Tail(cont), buf, v)
    /\ UNCHANGED <<dev, prev, options, overflow_checks, op, buf, n, v, t, polls, rc,
                   wire, blocks, fault, disc, last>>

\* chip_id: for i in 0..n { let c = self.read_char()?; v |= .. }
ChipIdData ==
    /\ Running /\ Ins[1] = "chip_id_data"
    /\ Continue([i \in 1..n |-> Rd(ToId, i - 1)] \o <<Ack>> \o Tail(cont), buf, v)
    /\ UNCHANGED <<dev, prev, options, overflow_checks, op, buf, n, v, t, polls, rc,
                   wire, blocks, fault, disc, last>>

\* the pages of erase: (page_count..page_offset+page_count).collect()
ErasePages(page_offset, page_count) ==
    LET end == (page_offset + page_count) % 256
    IN [i \in 1..(IF end > page_count THEN end - page_count ELSE 0)
          |-> page_count + i - 1]

\* erase: the u8 sum page_offset+page_count, then erase_pages(&pages)
EraseRange ==
    /\ Running /\ Ins[1] = "erase_range"
    /\ IF op.x + op.y > 255 /\ overflow_checks
       THEN Return(Panic("overflow")) /\ UNCHANGED buf
       ELSE /\ buf' = ErasePages(op.x, op.y)
            /\ Continue(erase_pages \o Tail(cont), buf', v)
    /\ UNCHANGED <<dev, prev, options, overflow_checks, op, n, v, t, polls, rc,
                   wire, blocks, fault, disc, last>>

\* erase_pages: let len = (pages.len() - 1) as u8, the write of len and of
\* the page list
EraseLen ==
    /\ Running /\ Ins[1] = "erase_len"
    /\ IF Len(buf) = 0 /\ overflow_checks
       THEN Return(Panic("overflow"))
       ELSE LET len == (Len(buf) + 255) % 256
            IN Continue(<<W(len)>> \o write_bytes_csum(buf) \o <<Ack>>
                        \o Tail(cont), buf, v)
    /\ UNCHANGED <<dev, prev, options, overflow_checks, op, buf, n, v, t, polls, rc,
                   wire, blocks, fault, disc, last>>

\* chunk.len() of the chunk of data.chunks(128) that starts at index
ChunkLen(len, index) == Min(ChunkSize, len - index)

\* read: one turn of `for chunk in data.chunks_mut(128)`, index being the
\* offset of the next chunk
ReadChunk ==
    /\ Running /\ Ins[1] = "read_chunk"
    /\ LET index == Ins[2]
           a == U32Add(op.a, index)
           clen == ChunkLen(Len(buf), index)
       IN IF index >= Len(buf)
          THEN Continue(Tail(cont), buf, v) /\ UNCHANGED blocks
          ELSE IF a.overflow /\ overflow_checks
          THEN Return(Panic("overflow")) /\ UNCHANGED blocks
          ELSE /\ blocks' = Append(blocks, <<a.val, clen>>)
               /\ Continue(read_mem_block(a.val, index, clen)
                           \o <<Local("read_chunk", index + clen)>>
                           \o Tail(cont), buf, v)
    /\ UNCHANGED <<dev, prev, options, overflow_checks, op, buf, n, v, t, polls, rc,
                   wire, fault, disc, last>>

\* write: one turn of `for chunk in data.chunks(128)`
WriteChunk ==
    /\ Running /\ Ins[1] = "write_chunk"
    /\ LET index == Ins[2]
           a == U32Add(op.a, index)
           clen == ChunkLen(Len(buf), index)
       IN IF index >= Len(buf)
          THEN Continue(Tail(cont), buf, v) /\ UNCHANGED blocks
          ELSE IF a.overflow /\ overflow_checks
          THEN Return(Panic("overflow")) /\ UNCHANGED blocks
          ELSE /\ blocks' = Append(blocks, <<a.val, clen>>)
               /\ Continue(write_mem_block(a.val, SubSeq(buf, index + 1, index + clen))
                           \o <<Local("write_chunk", index + clen)>>
                           \o Tail(cont), buf, v)
    /\ UNCHANGED <<dev, prev, options, overflow_checks, op, buf, n, v, t, polls, rc,
                   wire, fault, disc, last>>

\* --------------------------------------------------------- specifications
\* one step of the program
Run ==
    \/ PortWrite
    \/ PortFlush
    \/ PortSetLine
    \/ \E e \in SerialErrors : PortErr(e)
    \/ DelayMs
    \/ \E b \in 0..255 : PortRead(b)
    \/ \E e \in SerialErrors : PortReadErr(e)
    \/ PortReadWouldBlock
    \/ PollDelay
    \/ InfoData
    \/ ChipIdData
    \/ EraseRange
    \/ EraseLen
    \/ ReadChunk
    \/ WriteChunk

Start(sess) ==
    /\ overflow_checks \in BOOLEAN
    /\ session = sess
    /\ op = Idle /\ cont = <<>> /\ buf = <<>>
    /\ n = 0 /\ v = 0 /\ t = 0 /\ polls = 0 /\ rc = "read"
    /\ wire = <<>> /\ blocks = <<>>
    /\ fault = 0 /\ disc = None /\ last = None /\ result = None
    /\ prev = NoPrev

\* before construction, under any configuration
Init == options \in OptionsSet /\ dev = FreeDev /\ Start(FALSE)

Next == (\E o \in Ops : Call(o)) \/ Run

Spec == Init /\ [][Next]_vars

\* the program keeps running; the caller and the device are free
FairSpec == Spec /\ WF_vars(Run)

\* a constructed session that polls once, used on long buffers
ChunkInit ==
    /\ options = [no_reset |-> FALSE, response_timeout_ms |-> 0,
                  poll_delay_ms |-> 1, init_delay_ms |-> InitDelayMs]
    /\ dev = FreeDev
    /\ Start(TRUE)

ChunkNext == (\E o \in ChunkOps : Call(o)) \/ Run

ChunkSpec == ChunkInit /\ [][ChunkNext]_vars

\* the session against the simulated bootloader: the command operations on
\* a memory region at 0x08000000, over a transport that hands bytes over
\* at once or on flush, with a Get reply of 11 or 12 commands
SimAddrs == {U32(2048, 0), U32(2048, 4)}
SimLens == {0, 1, 129}
SimPages == 0..2

SimOps ==
    {Op(nm, NoAddr, 0, 0) : nm \in {"info", "chip_id", "erase_all"}}
    \cup {Op("erase", NoAddr, po, pc) : po \in SimPages, pc \in SimPages}
    \cup {Op(nm, a, l, 0) : nm \in {"read", "write"}, a \in SimAddrs, l \in SimLens}

SimInit ==
    /\ options = [no_reset |-> FALSE, response_timeout_ms |-> 0,
                  poll_delay_ms |-> 1, init_delay_ms |-> InitDelayMs]
    /\ dev \in {SimDev(b, nc) : b \in BOOLEAN, nc \in {11, 12}}
    /\ Start(TRUE)

SimNext ==
    \/ \E o \in SimOps : Call(o)
    \/ PortWrite
    \/ PortFlush
    \/ \E b \in 0..255 : PortRead(b)
    \/ PortReadWouldBlock
    \/ PollDelay
    \/ InfoData
    \/ ChipIdData
    \/ EraseRange
    \/ EraseLen
    \/ ReadChunk
    \/ WriteChunk

SimSpec == SimInit /\ [][SimNext]_vars

\* a session whose device answers with any byte where an acknowledgement
\* is awaited, or with none
AckOps == {Op(nm, NoAddr, 0, 0) : nm \in {"info", "erase_all"}}

AckInit ==
    /\ options = [no_reset |-> FALSE, response_timeout_ms |-> 0,
                  poll_delay_ms |-> 1, init_delay_ms |-> InitDelayMs]
    /\ dev = BytesDev
    /\ Start(TRUE)

AckNext ==
    \/ \E o \in AckOps : Call(o)
    \/ PortWrite
    \/ PortFlush
    \/ \E b \in 0..255 : PortRead(b)
    \/ PortReadWouldBlock
    \/ PollDelay
    \/ InfoData

AckSpec == AckInit /\ [][AckNext]_vars

\* ------------------------------------------------------- reading the wire
\* the events of kind k of a log, as the sequence of their values
Values(log, k) ==
    LET es == SelectSeq(log, LAMBDA e : e[1] = k)
    IN [i \in 1..Len(es) |-> es[i][2]]

\* the bytes written by the operation so far, and the bytes it received
Written == Values(wire, "w")
Received == Values(wire, "rx")

\* s and e agree as far as both go
Agree(s, e) == \A i \in 1..Min(Len(s), Len(e)) : s[i] = e[i]

\* s from position k on
From(s, k) == SubSeq(s, k, Len(s))

\* ------------------------------------------------------------------- C1
\* C1: for page_count >= 1 with all pages in 0..255, erase(page_offset,
\* page_count) sends after the Erase preamble the length byte page_count-1
\* and then the pages page_offset, ..., page_offset+page_count-1 in
\* ascending order.
C1_EraseSendsOffsetRange ==
    (op.name = "erase" /\ op.y >= 1 /\ op.x + op.y <= 256) =>
        LET sent == From(Written, 3)
            expect == <<op.y - 1>> \o [i \in 1..op.y |-> op.x + i - 1]
        IN /\ Agree(sent, expect)
           /\ result.tag = "Ok" => Len(sent) >= Len(expect)

\* ------------------------------------------------------------------- C2
IsMem == op.name \in {"read", "write"}

\* ceil(len / 128)
CeilBlocks(len) == (len + 127) \div 128

\* the last block of the range starts inside the 32-bit address space
FitsU32 == op.x = 0 \/ ~U32Add(op.a, 128 * (CeilBlocks(op.x) - 1)).overflow

\* block k (from 0) of the claim: at addr + 128*k, of min(128, L - 128*k) bytes
ClaimedBlock(k) == <<U32Add(op.a, 128 * k).val, Min(128, op.x - 128 * k)>>

\* the blocks issued so far are, in order, the first blocks of the claim
BlocksAsClaimed ==
    /\ Len(blocks) <= CeilBlocks(op.x)
    /\ \A k \in 1..Len(blocks) :
          /\ ~U32Add(op.a, 128 * (k - 1)).overflow
          /\ blocks[k] = ClaimedBlock(k - 1)

\* C2 as claimed: for every addr and every length L, a read or write that
\* is ACKed throughout issues exactly ceil(L/128) blocks, block k at
\* addr + 128*k with min(128, L - 128*k) bytes, in increasing k.
C2_BlocksForEveryAddr ==
    IsMem => /\ BlocksAsClaimed
             /\ result.tag = "Ok" => Len(blocks) = CeilBlocks(op.x)
             /\ result.tag # "Panic"

\* C2 amended: the same for every addr and L whose last block starts at
\* an address below 2^32.
C2_BlocksWhenRangeFits ==
    (IsMem /\ FitsU32) =>
        /\ BlocksAsClaimed
        /\ result.tag = "Ok" => Len(blocks) = CeilBlocks(op.x)
        /\ result.tag # "Panic"

\* a 257-byte write at 0x08000000 returned Ok after three blocks
C2_Witness ==
    /\ op = Op("write", U32(2048, 0), 257, 0)
    /\ result.tag = "Ok"
    /\ Len(blocks) = 3
    /\ blocks[3] = <<U32(2048, 256), 1>>

\* ------------------------------------------------------------------- C3
\* the number of events a complete block of clen bytes leaves on the wire
BlockEvents(clen) == clen + (IF op.name = "read" THEN 15 ELSE 14)

\* where block k (from 1) starts on the wire of a read or write, every
\* earlier block being complete
RECURSIVE BlockStart(_)
BlockStart(k) ==
    IF k = 1 THEN 1 ELSE BlockStart(k - 1) + BlockEvents(blocks[k - 1][2])

\* the length byte of block k: the first byte written after the address ACK
LenByteOnWire(k) == wire[BlockStart(k) + 11][2]

\* C3 as claimed: a read or write of 256 bytes is one block whose length
\* byte is 255, and one of 257 bytes is two blocks.
C3_OneBlockOf256 ==
    (IsMem /\ result.tag = "Ok") =>
        /\ op.x = 256 => Len(blocks) = 1 /\ LenByteOnWire(1) = 255
        /\ op.x = 257 => Len(blocks) = 2

\* C3 amended: a read or write of 256 bytes is two blocks, each with the
\* length byte 127, and one of 257 bytes is three blocks with the length
\* bytes 127, 127, 0.
C3_TwoBlocksOf256 ==
    (IsMem /\ result.tag = "Ok") =>
        /\ op.x = 256 =>
              /\ Len(blocks) = 2
              /\ LenByteOnWire(1) = 127 /\ LenByteOnWire(2) = 127
        /\ op.x = 257 =>
              /\ Len(blocks) = 3
              /\ LenByteOnWire(1) = 127 /\ LenByteOnWire(2) = 127
              /\ LenByteOnWire(3) = 0

\* a 256-byte read at 0x08000000 returned Ok
C3_Witness ==
    /\ op = Op("read", U32(2048, 0), 256, 0)
    /\ result.tag = "Ok"
    /\ Len(blocks) = 2

\* ------------------------------------------------------------------- C4
\* the kinds of the events of the wire
Kinds == {wire[i][1] : i \in 1..Len(wire)}

\* C4: constructed with no_reset = true, init sets no RTS or DTR level and
\* sleeps neither the 10 ms hold nor init_delay_ms before writing 0x7F.
C4_NoResetSkipsReset ==
    (op.name = "new" /\ options.no_reset) =>
        /\ Kinds \cap {"rts", "dtr"} = {}
        /\ \A i \in 1..Len(wire) :
              wire[i][1] = "delay" => \E j \in 1..(i - 1) : wire[j] = <<"w", UART_DISC>>

\* ------------------------------------------------------------------- C5
Nack == Err("Nack", 0)

\* C5 as claimed: when a read of any length is answered NACK at an ACK
\* point, the caller gets Err(Nack) and the whole receive buffer is as it
\* was before the call.
C5_NackLeavesBuffer ==
    (op.name = "read" /\ last = Nack) =>
        /\ result = Nack
        /\ buf = Zeros(op.x)

\* C5 amended: the caller gets Err(Nack), and the receive buffer is as it
\* was before the call from the start of the block that was answered NACK
\* on (the whole buffer when that is the first block); the blocks read
\* before it stay in the buffer.
C5_NackLeavesRestOfBuffer ==
    (op.name = "read" /\ last = Nack) =>
        /\ result = Nack
        /\ Len(blocks) >= 1
        /\ \A i \in 1..Len(buf) :
              buf[i] = IF i > 128 * (Len(blocks) - 1) THEN 0 ELSE DevByte(i)

\* a 257-byte read was answered NACK on the address of its third block
C5_Witness ==
    /\ op.name = "read" /\ op.x = 257
    /\ last = Nack /\ result = Nack
    /\ Len(blocks) = 3
    /\ Len(Received) = 3 + 128 + 3 + 128 + 2

\* ------------------------------------------------------------------- C6
\* C6: read_char terminates under every configuration and every behaviour
\* of the transport: a read_char that has polled returns.
C6_ReadCharReturns == (polls > 0) ~> (polls = 0)

\* ------------------------------------------------------------------- C7
CommandOps == {"info", "chip_id", "erase", "erase_all", "read", "write"}

\* C7: in a command operation, once an await_ack or read_char has given a
\* non-ACK outcome (Nack, InvalidResponse, Timeout, Serial), the operation
\* has returned exactly that error and does nothing more: no write, no
\* read, no later block.
C7_ErrorAbortsOperation ==
    /\ [](op.name \in CommandOps /\ last.tag = "Err" => ~Running /\ result = last)
    /\ [][op.name \in CommandOps /\ last.tag = "Err" /\ last' = last
            => wire' = wire /\ blocks' = blocks /\ result' = result]_vars

\* a 257-byte write timed out on the final ACK of its second block
C7_Witness ==
    /\ op.name = "write" /\ op.x = 257
    /\ Len(blocks) = 2
    /\ Len(Received) = 5
    /\ last = Err("Timeout", 0) /\ result = last /\ ~Running

\* ------------------------------------------------------------------- C8
\* what a Get exchange that received the bytes rx and met the transport
\* error f (0: none) comes to, read off the protocol: ACK, N, N+1 payload
\* bytes, ACK
GetOutcome(rx, f) ==
    LET ackOf(b) == IF b = UART_ACK THEN Ok(0)
                    ELSE IF b = UART_NACK THEN Err("Nack", 0)
                    ELSE Err("InvalidResponse", 0)
    IN IF f # 0 THEN Err("Serial", f)
       ELSE IF Len(rx) = 0 THEN Err("Timeout", 0)
       ELSE IF rx[1] # UART_ACK THEN ackOf(rx[1])
       ELSE IF Len(rx) = 1 THEN Err("Timeout", 0)
       ELSE IF rx[2] + 1 > 12 THEN Err("BufferLength", 0)
       ELSE IF Len(rx) < rx[2] + 4 THEN Err("Timeout", 0)
       ELSE ackOf(rx[rx[2] + 4])

\* the events of init after the discovery acknowledgement
AfterDiscovery ==
    LET f == CHOOSE i \in 1..Len(wire) :
                 /\ wire[i][1] = "flush"
                 /\ \A j \in 1..(i - 1) : wire[j][1] # "flush"
        k == IF disc.kind = "Timeout" THEN f ELSE f + 1
    IN From(wire, k + 1)

\* C8: a Timeout or InvalidResponse of the discovery acknowledgement does
\* not fail construction: init goes on to sleep 100 ms and to issue Get, and
\* construction returns Ok exactly when the Get exchange succeeds and the
\* error of the Get exchange otherwise.
C8_DiscoveryFailureAbsorbed ==
    (op.name = "new" /\ disc.tag = "Err"
        /\ disc.kind \in {"Timeout", "InvalidResponse"}) =>
        /\ Agree(AfterDiscovery, <<<<"delay", 100>>, <<"w", 0>>, <<"w", 255>>,
                                   <<"flush", 0>>>>)
        /\ Running => result = None
        /\ ~Running =>
              /\ Len(AfterDiscovery) >= 1
              /\ fault = 0 => Len(AfterDiscovery) >= 4
              /\ result = GetOutcome(Values(AfterDiscovery, "rx"), fault)

\* the discovery acknowledgement timed out and construction returned Ok
C8_Witness ==
    /\ op.name = "new"
    /\ disc = Err("Timeout", 0)
    /\ result.tag = "Ok" /\ session

\* ------------------------------------------------------------------- C9
\* C9: every transport failure, at any step of any operation, construction
\* included, ends the operation with Serial(e) carrying the transport's
\* error, and in no other way.
C9_TransportFailureIsSerial ==
    fault # 0 => ~Running /\ result = Err("Serial", fault)

\* ------------------------------------------------------------------ C10
\* the sequence of the claim
ClaimedReset(bootloader) ==
    IF bootloader
    THEN <<<<"rts", 1>>, <<"delay", 10>>, <<"dtr", 1>>, <<"rts", 0>>,
           <<"delay", options.init_delay_ms>>, <<"dtr", 0>>>>
    ELSE <<<<"rts", 1>>, <<"delay", 10>>, <<"rts", 0>>,
           <<"delay", options.init_delay_ms>>>>

\* C10: reset(true) is set RTS high, sleep 10 ms, set DTR high, set RTS
\* low, sleep init_delay_ms, set DTR low, in this order with nothing in
\* between; reset(false) is set RTS high, sleep 10 ms, set RTS low, sleep
\* init_delay_ms, and never changes DTR.
C10_ResetSequence ==
    /\ op.name = "reset" =>
          /\ Len(wire) <= Len(ClaimedReset(op.x = 1))
          /\ Agree(wire, ClaimedReset(op.x = 1))
          /\ result.tag = "Ok" => wire = ClaimedReset(op.x = 1)
          /\ result.tag \in {"Ok", "None"} \/ result = Err("Serial", fault)
    /\ op.name = "new" => Agree(wire, ClaimedReset(TRUE))

\* reset(true) returned Ok
C10_Witness ==
    /\ op.name = "reset" /\ op.x = 1
    /\ result.tag = "Ok"
    /\ Len(wire) = 6

\* ------------------------------------------------------------------ C11
\* where init sleeps after the discovery acknowledgement: after the reset
\* (6 events), 0x7F and the flush, and the byte of the acknowledgement
\* when one was read
GetStart == IF Len(wire) >= 9 /\ wire[9][1] = "rx" THEN 10 ELSE 9

C12_InfoBufferLength ==
    (op.name = "info" /\ Len(Received) >= 2 /\ Received[1] = UART_ACK) =>
        LET N == Received[2] IN
        IF N + 1 > 12
        THEN /\ Len(Received) = 2
             /\ ~Running => result = Err("BufferLength", 0)
        ELSE /\ Len(Received) <= 2 + (N + 1) + 1
             /\ result # Err("BufferLength", 0)
             /\ result.tag = "Ok" =>
                   /\ Len(Received) = 2 + (N + 1) + 1
                   /\ Received[N + 4] = UART_ACK
                   /\ result.v = Received[3]
                   /\ \A i \in 1..(N + 1) : buf[i] = Received[2 + i]

\* info refused a reply of 13 bytes
C12_WitnessRefused ==
    /\ op.name = "info" /\ Received = <<UART_ACK, 12>>
    /\ result = Err("BufferLength", 0)

\* info accepted a reply of 12 bytes and returned its first byte
C12_Witness ==
    /\ op.name = "info" /\ Len(Received) = 15 /\ Received[2] = 11
    /\ result = Ok(Received[3])
    /\ Received[3] = DevByte(1)

\* ------------------------------------------------------------------ C13
\* the first call of the session was write(addr, data), and it has returned
WriteReturned ==
    /\ dev.mode = "sim" /\ dev.calls = 1
    /\ op.name = "write" /\ ~Running

\* the second call is read(addr, out) with |out| = |data|, and it has returned
ReadBackReturned ==
    /\ dev.mode = "sim" /\ dev.calls = 2
    /\ op.name = "read" /\ ~Running
    /\ prev.op = Op("write", op.a, op.x, 0)

\* C13: against the simulated bootloader, for every addr and data inside
\* the memory region, write(addr, data) followed by read(addr, out) with
\* |out| = |data| returns Ok for both and leaves out = data, also for the
\* lengths that are no multiple of 128 and that span several blocks.
C13_WriteReadRoundTrip ==
    /\ WriteReturned => result.tag = "Ok"
    /\ ReadBackReturned =>
          /\ prev.result.tag = "Ok"
          /\ result.tag = "Ok"
          /\ buf = prev.buf

\* the same over a transport that hands every byte to the bootloader when
\* it is written
C13_RoundTripWhenUnbuffered ==
    ~dev.buffered => C13_WriteReadRoundTrip

\* 129 bytes written at 0x08000004 were read back over such a transport
C13_WitnessUnbuffered ==
    /\ ReadBackReturned /\ ~dev.buffered
    /\ op.a = U32(2048, 4) /\ op.x = 129
    /\ result.tag = "Ok" /\ buf = TxData(129)
    /\ Len(blocks) = 2

\* ------------------------------------------------------------------ C14
\* a byte has been written and no flush has followed it
Unflushed ==
    \E i \in 1..Len(wire) :
        /\ wire[i][1] = "w"
        /\ \A j \in (i + 1)..Len(wire) : wire[j][1] # "flush"

\* C14: in every operation, when the wait for an ACK starts, every byte
\* written so far has been followed by a flush; write_mem_block too flushes
\* after the length byte, the data and the checksum, before the final ACK.
C14_FlushBeforeAck ==
    (Running /\ Ins[1] = "ack") => ~Unflushed

\* the same in every operation but write
C14_FlushBeforeAckButWrite ==
    (Running /\ Ins[1] = "ack" /\ op.name # "write") => ~Unflushed

\* ------------------------------------------------------------------ C15
\* the mapping of the claim
ClaimedAck(b) ==
    IF b = 121 THEN Ok(0)
    ELSE IF b = 31 THEN Err("Nack", 0)
    ELSE Err("InvalidResponse", 0)

\* C15: await_ack consumes exactly one byte through read_char and maps it:
\* 0x79 is Ok, 0x1F is Err(Nack), each of the other 254 values is
\* Err(InvalidResponse); a Timeout of read_char is returned as Timeout.
\* No operation produces NoAck.
C15_AwaitAckMapping ==
    /\ [][(Running /\ Ins[1] = "ack" /\ cont' # cont) =>
            IF wire' # wire
            THEN /\ wire' = Append(wire, <<"rx", wire'[Len(wire')][2]>>)
                 /\ last' = ClaimedAck(wire'[Len(wire')][2])
            ELSE last' = Err("Timeout", 0)]_vars
    /\ [](last.kind # "NoAck" /\ result.kind # "NoAck")

\* the final acknowledgement of a mass erase was the byte 0x78
C15_Witness ==
    /\ op.name = "erase_all"
    /\ Received = <<UART_ACK, 120>>
    /\ last = Err("InvalidResponse", 0) /\ result = last

\* the final acknowledgement of a mass erase never came
C15_WitnessTimeout ==
    /\ op.name = "erase_all"
    /\ Received = <<UART_ACK>>
    /\ last = Err("Timeout", 0) /\ result = last

\* ------------------------------------------------------------------ C16
\* the preamble of the claim: [C, 0xFF XOR C] and a flush
ClaimedPreamble(c) == <<<<"w", c>>, <<"w", Xor(255, c)>>, <<"flush", 0>>>>

\* the opcode of each command operation, as the claim lists them
ClaimedOpcode ==
    CASE op.name = "info" -> 0
      [] op.name = "chip_id" -> 2
      [] op.name = "read" -> 17
      [] op.name = "write" -> 49
      [] op.name \in {"erase", "erase_all"} -> 67

\* C16: for each of the twelve opcodes C, write_cmd(C) puts exactly the
\* bytes C and 0xFF XOR C on the wire, in this order, and then flushes; and
\* every command operation begins its exchange (read and write: the exchange
\* of every block) with the preamble of its own opcode.
C16_Preamble ==
    /\ op.name = "write_cmd" =>
          /\ Len(wire) <= 3
          /\ Agree(wire, ClaimedPreamble(op.x))
          /\ result.tag = "Ok" => wire = ClaimedPreamble(op.x)
    /\ op.name \in CommandOps =>
          /\ Agree(wire, ClaimedPreamble(ClaimedOpcode))
          /\ \A k \in 1..Len(blocks) :
                /\ BlockStart(k) <= Len(wire) + 1
                /\ Agree(From(wire, BlockStart(k)), ClaimedPreamble(ClaimedOpcode))

\* write_cmd(ReadoutUnprotect) returned Ok
C16_Witness ==
    /\ op = Op("write_cmd", NoAddr, 146, 0)
    /\ result.tag = "Ok"
    /\ wire = <<<<"w", 146>>, <<"w", 109>>, <<"flush", 0>>>>

\* the third block of a 257-byte read has sent its preamble
C16_WitnessBlocks ==
    /\ op.name = "read" /\ op.x = 257 /\ Len(blocks) = 3
    /\ Len(wire) >= BlockStart(3) + 2

\* ------------------------------------------------------------------ C17
\* read_char is about to sleep after a read that returned would-block
Sleeping == Running /\ IsRead(Ins) /\ rc = "delay"

\* C17: the timeout bound of read_char is exclusive on the accumulated
\* sleep t.  After a sleep that leaves t <= response_timeout_ms (t equal to
\* it included) read_char polls again; it returns Timeout only after a
\* sleep that makes t > response_timeout_ms, only when every read it
\* attempted returned would-block, and with poll_delay_ms > 0 after exactly
\* floor(response_timeout_ms / poll_delay_ms) + 1 reads, none of them after
\* the last sleep.
C17_TimeoutBound ==
    /\ [][Sleeping =>
            IF t + options.poll_delay_ms > options.response_timeout_ms
            THEN /\ cont' # cont
                 /\ last' = Err("Timeout", 0)
                 /\ wire' = wire
                 /\ options.poll_delay_ms > 0 =>
                       polls = (options.response_timeout_ms
                                   \div options.poll_delay_ms) + 1
            ELSE /\ cont' = cont /\ result' = result
                 /\ rc' = "read" /\ polls' = polls
                 /\ t' = t + options.poll_delay_ms]_vars
    /\ [][(Running /\ IsRead(Ins) /\ cont' # cont /\ last'.kind = "Timeout") =>
            /\ Sleeping /\ polls >= 1
            /\ t + options.poll_delay_ms > options.response_timeout_ms]_vars

\* with response_timeout_ms = poll_delay_ms = 1, read_char has slept once
\* (t = 1 = response_timeout_ms), has polled again and is about to time out
C17_Witness ==
    /\ Sleeping
    /\ options.response_timeout_ms = 1 /\ options.poll_delay_ms = 1
    /\ t = 1 /\ polls = 2

\* ------------------------------------------------------------------ C18
\* the address segment of the claim for the address A = a[1] * 2^16 + a[2]:
\* (A>>24)&0xFF, (A>>16)&0xFF, (A>>8)&0xFF, A&0xFF, their XOR, and a flush
ClaimedAddress(a) ==
    LET b1 == (a[1] \div 256) % 256
        b2 == a[1] % 256
        b3 == (a[2] \div 256) % 256
        b4 == a[2] % 256
    IN <<<<"w", b1>>, <<"w", b2>>, <<"w", b3>>, <<"w", b4>>,
         <<"w", Xor(Xor(b1, b2), Xor(b3, b4))>>, <<"flush", 0>>>>

\* C18: for every 32-bit address A of a memory block transaction, the
\* running addresses of read and write included, the five bytes written
\* after the preamble ACK are the four bytes of A, most significant first,
\* and their XOR; a flush follows, and only then is the address ACK awaited.
C18_AddressBigEndian ==
    IsMem =>
        \A k \in 1..Len(blocks) :
            LET s == BlockStart(k) IN
            /\ Agree(From(wire, s + 4), ClaimedAddress(blocks[k][1]))
            /\ (Running /\ k = Len(blocks) /\ Len(wire) \in (s + 3)..(s + 8)
                   /\ wire[s + 3] = <<"rx", UART_ACK>>)
                  => Ins[1] \in {"w", "flush"}
            /\ Len(wire) >= s + 10 => wire[s + 10][1] = "rx"

\* the third block of a 257-byte write at 0x08000000 has sent the address
\* 0x08000100 and received its ACK
C18_Witness ==
    /\ op = Op("write", U32(2048, 0), 257, 0)
    /\ Len(blocks) = 3 /\ blocks[3][1] = U32(2048, 256)
    /\ Len(wire) >= BlockStart(3) + 10
    /\ SubSeq(wire, BlockStart(3) + 4, BlockStart(3) + 10)
         = <<<<"w", 8>>, <<"w", 0>>, <<"w", 1>>, <<"w", 0>>, <<"w", 9>>,
             <<"flush", 0>>, <<"rx", UART_ACK>>>>

\* ------------------------------------------------------------------ C19
\* C19: for every page_offset and page_count, 0 included, erase never sends
\* the mass-erase payload [0xFF, 0x00] after the Erase preamble: the length
\* byte it sends is the number of page numbers that follow it, less one,
\* with no wrap-around, and at least one page number follows.
C19_NeverMassErase ==
    op.name = "erase" =>
        /\ ~(Len(Written) >= 4 /\ Written[3] = 255 /\ Written[4] = 0)
        /\ result.tag = "Ok" =>
              /\ Len(Written) >= 5
              /\ Written[3] = (Len(Written) - 4) - 1

\* the same for the calls that give erase_pages a page list with a page in it
C19_LengthOfNonEmptyList ==
    (op.name = "erase" /\ ErasePages(op.x, op.y) # <<>>) =>
        /\ ~(Len(Written) >= 4 /\ Written[3] = 255 /\ Written[4] = 0)
        /\ result.tag = "Ok" =>
              /\ Len(Written) >= 5
              /\ Written[3] = (Len(Written) - 4) - 1

\* ------------------------------------------------------------------ C20
\* a command operation has returned with one of the outcomes of the claim
ReturnedInProtocol ==
    /\ dev.mode = "sim" /\ op.name \in CommandOps /\ ~Running
    /\ \/ result.tag = "Ok"
       \/ result.kind \in {"BufferLength", "Nack", "InvalidResponse"}

\* C20: host and bootloader stay in step.  Against the simulated
\* bootloader, whenever a command operation returns with Ok, BufferLength,
\* Nack or InvalidResponse, every byte the bootloader has sent has been
\* read, so that the first byte the next operation reads is the reply to
\* its own preamble.
C20_InStep ==
    ReturnedInProtocol => dev.out = <<>>

\* the same for a bootloader whose Get reply fits the buffer of info, over
\* a transport that hands every byte over when it is written
C20_InStepWhenReplyFits ==
    (ReturnedInProtocol /\ dev.ncmds = 11 /\ ~dev.buffered) => dev.out = <<>>

=============================================================================
